---- MODULE Spec2Model ----
(***************************************************************************)
(* A model of prepull_singularity: the command line driver (main), the     *)
(* image puller (pullimage) and the digest resolver (taggedimagetodigest,  *)
(* getdigestfromquay, getdigestfromdockerhub).                             *)
(*                                                                         *)
(* Python strings are sequences of one-character strings, so that split,   *)
(* startswith, join and format are computed as the code computes them.     *)
(* An Optional[str] is a sequence of length at most one: None is <<>> and  *)
(* the string s is <<s>>.                                                  *)
(***************************************************************************)
EXTENDS Integers, Sequences, FiniteSets, TLC

----------------------------------------------------------------------------
(* Bounds of the model *)

\* longest input list
MaxImages == 2

\* largest value given to -a/--max-attempts (0 is given too, to reach the
\* validation error)
MaxAttemptsArg == 1

----------------------------------------------------------------------------
(* String literals of the program and of the inputs *)


\* "quay.io/"  (the startswith argument)
QuayHost ==
    <<"q","u","a","y",".","i","o","/">>

\* "docker://"  (default of --prefix)
DockerPrefix ==
    <<"d","o","c","k","e","r",":","/","/">>

\* "shub://"  (a --prefix other than the default)
ShubPrefix ==
    <<"s","h","u","b",":","/","/">>

\* "library/"
Library ==
    <<"l","i","b","r","a","r","y","/">>

\* "latest"
Latest ==
    <<"l","a","t","e","s","t">>

\* "quay.io/biocontainers/samtools:1.2-0"
RefQuay ==
    <<"q","u","a","y",".","i","o","/","b","i","o","c","o","n","t","a","i",
      "n","e","r","s","/","s","a","m","t","o","o","l","s",":","1",".","2",
      "-","0">>

\* "biocontainers/cpat"
RefUntagged ==
    <<"b","i","o","c","o","n","t","a","i","n","e","r","s","/","c","p","a",
      "t">>

\* "debian@sha256:ab"
RefPinned ==
    <<"d","e","b","i","a","n","@","s","h","a","2","5","6",":","a","b">>

\* "host:5000/img:v1"
RefPort ==
    <<"h","o","s","t",":","5","0","0","0","/","i","m","g",":","v","1">>

\* "sha256:97b9627711c16125fe1b57cf8745396064fd88ebeff6ab00cf6a68aeacecfcda"
QuayDigest ==
    <<"s","h","a","2","5","6",":","9","7","b","9","6","2","7","7","1","1",
      "c","1","6","1","2","5","f","e","1","b","5","7","c","f","8","7","4",
      "5","3","9","6","0","6","4","f","d","8","8","e","b","e","f","f","6",
      "a","b","0","0","c","f","6","a","6","8","a","e","a","c","e","c","f",
      "c","d","a">>

\* "sha256:6ee77007a59b331a31203ac68c20855230f3e64be550ace88645c63550060b90"
HubDigest ==
    <<"s","h","a","2","5","6",":","6","e","e","7","7","0","0","7","a","5",
      "9","b","3","3","1","a","3","1","2","0","3","a","c","6","8","c","2",
      "0","8","5","5","2","3","0","f","3","e","6","4","b","e","5","5","0",
      "a","c","e","8","8","6","4","5","c","6","3","5","5","0","0","6","0",
      "b","9","0">>
----------------------------------------------------------------------------
(* Python's str and Optional *)

None == <<>>

Some(s) == <<s>>

\* c in s, for a one-character c
contains(s, c) == \E i \in 1..Len(s) : s[i] = c

\* s.startswith(p)
startswith(s, p) == Len(s) >= Len(p) /\ SubSeq(s, 1, Len(p)) = p

\* s.split(sep) for a one-character sep: every occurrence splits
RECURSIVE split(_, _)
split(s, sep) ==
    IF ~contains(s, sep) THEN <<s>>
    ELSE LET i == CHOOSE k \in 1..Len(s) :
                      s[k] = sep /\ \A j \in 1..(k - 1) : s[j] /= sep
         IN  <<SubSeq(s, 1, i - 1)>> \o split(SubSeq(s, i + 1, Len(s)), sep)

\* sep.join(parts)
RECURSIVE join(_, _)
join(parts, sep) ==
    IF Len(parts) = 0 THEN <<>>
    ELSE IF Len(parts) = 1 THEN parts[1]
    ELSE parts[1] \o sep \o join(Tail(parts), sep)

----------------------------------------------------------------------------
(* Values of json.loads, and subscription as Python evaluates it.  The     *)
(* result of an evaluation that may raise is [exc, val]: exc is "" when it *)
(* returned val, and the exception's class otherwise.                      *)

JDict(f) == [t |-> "dict", v |-> f]

JList(s) == [t |-> "list", v |-> s]

JStr(s) == [t |-> "str", v |-> s]

JNull == [t |-> "null", v |-> <<>>]

Returned(v) == [exc |-> "", val |-> v]

Raised(e) == [exc |-> e, val |-> <<>>]

\* obj[key] for a string key
getitem_key(obj, key) ==
    IF obj.t = "dict"
    THEN IF key \in DOMAIN obj.v THEN Returned(obj.v[key])
         ELSE Raised("KeyError")
    ELSE Raised("TypeError")

\* obj[i] for an integer i >= 0
getitem_index(obj, i) ==
    IF obj.t = "list"
    THEN IF i < Len(obj.v) THEN Returned(obj.v[i + 1])
         ELSE Raised("IndexError")
    ELSE IF obj.t = "str"
    THEN IF i < Len(obj.v) THEN Returned(JStr(<<obj.v[i + 1]>>))
         ELSE Raised("IndexError")
    ELSE IF obj.t = "dict" THEN Raised("KeyError")
    ELSE Raised("TypeError")

\* json.loads(response.content.decode()): a body is [json, val]
json_loads(content) ==
    IF content.json THEN Returned(content.val) ELSE Raised("ValueError")

----------------------------------------------------------------------------
(* Console output.  A printed line is [color, fmt, args]: color is the     *)
(* escape sequence put before the text ("" for a plain print), and the     *)
(* text is fmt.format(args).                                               *)

colors ==
    [HEADER |-> "\\033[95m", OKBLUE |-> "\\033[94m", OKGREEN |-> "\\033[92m",
     WARNING |-> "\\033[93m", FAIL |-> "\\033[91m", ENDC |-> "\\033[0m",
     BOLD |-> "\\033[1m", UNDERLINE |-> "\\033[4m"]

print(fmt, args) == [color |-> "", fmt |-> fmt, args |-> args, endc |-> ""]

coloredprint(fmt, args, color) ==
    [color |-> colors[color], fmt |-> fmt, args |-> args,
     endc |-> colors["ENDC"]]

\* the lines printoutput prints for the attempts i..len(stdout)
RECURSIVE printattempts(_, _, _, _)
printattempts(stdout, stderr, failed, i) ==
    IF i > Len(stdout) THEN <<>>
    ELSE LET color == IF i = Len(stdout) /\ ~failed THEN "OKBLUE"
                      ELSE "WARNING"
         IN  << coloredprint("Attempt {}:", <<i>>, "HEADER"),
                coloredprint("STDERR:", <<>>, color),
                print("{}", <<stderr[i]>>),
                coloredprint("STDOUT:", <<>>, color),
                print("{}", <<stdout[i]>>) >>
             \o printattempts(stdout, stderr, failed, i + 1)

printoutput(stdout, stderr, failed) ==
    <<print("_ * 79", <<>>)>>
    \o printattempts(stdout, stderr, failed, 1)
    \o <<print("_ * 79", <<>>)>>
----------------------------------------------------------------------------
(* pullimage *)

\* the argument list of subprocess.run
command(singularityexe, prefix, image) ==
    <<singularityexe, "exec", "-e", prefix \o image, "echo", "Success!">>

\* the format strings of pullimage's summary line
PulledFmt == "Successfully pulled '{}{}' in {} attempt{}"

FailedFmt == "Failed to pull '{}{}' after {} attempt{}"

\* variant of the loop condition that does not stop at exit code 0
pullimage_loop_ignoring_rc(rc, attempt, maxattempts) == attempt < maxattempts

\* variant of the loop condition that allows one attempt more
pullimage_loop_one_more(rc, attempt, maxattempts) ==
    rc /= 0 /\ attempt <= maxattempts

\* while rc != 0 and attempt < maxattempts
pullimage_loop(rc, attempt, maxattempts) == rc /= 0 /\ attempt < maxattempts

\* what pullimage does once the loop has ended: the lines printed and the
\* value returned
pullimage_return(image, prefix, rc, attempt, stdout, stderr, showoutputonfailure, showoutputonsuccess) ==
    LET plural == IF attempt > 1 THEN "s" ELSE ""
    IN  IF rc = 0
        THEN [out |-> <<coloredprint(PulledFmt,
                          <<prefix, image, attempt, plural>>, "OKGREEN")>>
                      \o (IF showoutputonsuccess
                          THEN printoutput(stdout, stderr, FALSE)
                          ELSE <<>>),
              ret |-> TRUE]
        ELSE [out |-> <<coloredprint(FailedFmt,
                          <<prefix, image, attempt, plural>>, "FAIL")>>
                      \o (IF showoutputonfailure
                          THEN printoutput(stdout, stderr, TRUE)
                          ELSE <<>>),
              ret |-> FALSE]

----------------------------------------------------------------------------
(* The digest resolver.  Each get* operator is the function's code after   *)
(* its requests.get has returned; its result is [exc, val, out]: the       *)
(* exception that leaves the function ("" for none), the value returned    *)
(* and the lines printed.                                                  *)

getdigestfromquay(image, tag, response) ==
    LET fail == [exc |-> "", val |-> None,
                 out |-> <<coloredprint(
                     "Couldn't retrieve digest from Quay.io for 'quay.io/{}:{}'",
                     <<image, tag>>, "FAIL")>>]
        \* except (KeyError, IndexError): pass
        except(e) == IF e \in {"KeyError", "IndexError"} THEN fail
                     ELSE [exc |-> e, val |-> None, out |-> <<>>]
    IN  IF response.status_code = 200
        THEN LET content == json_loads(response.content)
                 tags == getitem_key(content.val, "tags")
                 first == getitem_index(tags.val, 0)
                 digest == getitem_key(first.val, "manifest_digest")
             IN  IF content.exc /= "" THEN except(content.exc)
                 ELSE IF tags.exc /= "" THEN except(tags.exc)
                 ELSE IF first.exc /= "" THEN except(first.exc)
                 ELSE IF digest.exc /= "" THEN except(digest.exc)
                 ELSE [exc |-> "",
                       val |-> IF digest.val.t = "str"
                               THEN Some(digest.val.v) ELSE None,
                       out |-> <<>>]
        ELSE fail

\* if "/" not in image: image = "library/{}".format(image)
dockerhubimage(image) ==
    IF ~contains(image, "/") THEN Library \o image ELSE image

\* after the token request: the token, or the function's early end
getdigestfromdockerhub_auth(image, tag, authresponse) ==
    IF authresponse.status_code = 200
    THEN LET content == json_loads(authresponse.content)
             token == getitem_key(content.val, "access_token")
         IN  IF content.exc /= ""
             THEN [exc |-> content.exc, token |-> None, out |-> <<>>]
             ELSE IF token.exc /= ""
             THEN [exc |-> token.exc, token |-> None, out |-> <<>>]
             ELSE [exc |-> "", token |-> Some(token.val.v), out |-> <<>>]
    ELSE [exc |-> "", token |-> None,
          out |-> <<coloredprint(
              "Couldn't retrieve digest from dockerhub for '{}:{}'",
              <<dockerhubimage(image), tag>>, "FAIL")>>]

\* after the manifest request
getdigestfromdockerhub(image, tag, response) ==
    IF response.status_code = 200
       /\ "Docker-Content-Digest" \in DOMAIN response.headers
    THEN [exc |-> "", val |-> Some(response.headers["Docker-Content-Digest"]),
          out |-> <<>>]
    ELSE [exc |-> "", val |-> None,
          out |-> <<coloredprint(
              "Couldn't retrieve digest from dockerhub for '{}:{}'",
              <<dockerhubimage(image), tag>>, "FAIL")>>]

\* variant of the split that splits at the first ":" only
splitimage_first_colon(image) ==
    LET img == split(image, ":")
    IN  [imagename |-> img[1],
         tag |-> IF Len(img) >= 2 THEN join(Tail(img), <<":">>) ELSE Latest]

\* img = image.split(":"); imagename = img[0]; tag = img[1] or "latest"
splitimage(image) ==
    LET img == split(image, ":")
    IN  [imagename |-> img[1],
         tag |-> IF Len(img) >= 2 THEN img[2] ELSE Latest]

\* the dispatch of taggedimagetodigest
isquay(image) == startswith(image, QuayHost)

\* "/".join(imagename.split("/")[1:])
quayrepository(imagename) == join(Tail(split(imagename, "/")), <<"/">>)

\* variant of the final assembly that names a quay image without its host
taggedimagetodigest_hostless(imagename, imagedigest) ==
    IF imagedigest /= None
    THEN Some((IF isquay(imagename) THEN quayrepository(imagename)
               ELSE imagename) \o <<"@">> \o imagedigest[1])
    ELSE None

\* variant of the final assembly that falls back to the name when there
\* is no digest
taggedimagetodigest_fallback(imagename, imagedigest) ==
    IF imagedigest /= None
    THEN Some(imagename \o <<"@">> \o imagedigest[1])
    ELSE Some(imagename)

\* the final assembly of taggedimagetodigest
taggedimagetodigest(imagename, imagedigest) ==
    IF imagedigest /= None
    THEN Some(imagename \o <<"@">> \o imagedigest[1])
    ELSE None
----------------------------------------------------------------------------
(* The inputs: the command line and the YAML file *)

Flags ==
    {"--stop-on-failure", "--show-output-on-failure",
     "--show-output-on-success", "--use-digest"}

\* a command line: the flags given, and the values given to -a and -p
\* (None when the option is absent)
Argvs ==
    [flags : SUBSET Flags,
     max_attempts : {None} \cup {Some(n) : n \in 0..MaxAttemptsArg},
     prefix : {None, Some(ShubPrefix)}]

\* an entry of the loaded YAML document: a str, or a value of another type
\* (val is then str(entry), the text of the error message)
YamlEntries ==
    {[type |-> "str", val |-> RefQuay], [type |-> "str", val |-> RefUntagged],
     [type |-> "str", val |-> RefPinned], [type |-> "str", val |-> RefPort],
     [type |-> "int", val |-> <<"4", "2">>]}

\* the documents: `images` as main iterates it (a list, or the values of a
\* mapping in the mapping's order), of at most MaxImages entries, no entry
\* twice
YamlDocuments ==
    UNION {{d \in [1..n -> YamlEntries] :
               \A i, j \in 1..n : d[i] = d[j] => i = j} : n \in 0..MaxImages}

\* the exit codes of the external executable
ReturnCodes == {0, 1}

\* response bodies of the quay tag endpoint
QuayContents ==
    << [json |-> TRUE,
        val |-> JDict([tags |-> JList(<<
                   JDict([manifest_digest |-> JStr(QuayDigest)])>>)])],
       [json |-> TRUE, val |-> JDict([tags |-> JList(<<>>)])],
       [json |-> TRUE,
        val |-> JDict([tags |-> JList(<<JDict([name |-> JStr(Latest)])>>)])],
       [json |-> TRUE, val |-> JDict([error |-> JStr(Latest)])],
       [json |-> TRUE, val |-> JDict([tags |-> JNull])],
       [json |-> TRUE,
        val |-> JDict([tags |-> JList(<<
                   JDict([manifest_digest |-> JNull])>>)])],
       [json |-> FALSE, val |-> JNull] >>

\* response bodies of the Docker Hub token endpoint
AuthContents ==
    << [json |-> TRUE, val |-> JDict([access_token |-> JStr(<<"t">>)])],
       [json |-> TRUE, val |-> JDict([token |-> JStr(<<"t">>)])],
       [json |-> FALSE, val |-> JNull] >>

\* response headers of the Docker Hub manifest endpoint
ManifestHeaders ==
    << [x \in {"Docker-Content-Digest"} |-> HubDigest],
       [x \in {"Content-Type"} |-> Latest] >>

StatusCodes == {200, 404}

----------------------------------------------------------------------------
(* parsearguments and the conditions of main *)

DefaultMaxAttempts == 3

\* variant of the namespace in which show-output-on-failure is on unless
\* given
parse_args_output_on_failure(av) ==
    [max_attempts |-> IF av.max_attempts = None THEN DefaultMaxAttempts
                      ELSE av.max_attempts[1],
     prefix |-> IF av.prefix = None THEN DockerPrefix ELSE av.prefix[1],
     stop_on_failure |-> "--stop-on-failure" \in av.flags,
     show_output_on_failure |-> TRUE,
     show_output_on_success |-> "--show-output-on-success" \in av.flags,
     singularity_exe |-> "singularity",
     use_digest |-> "--use-digest" \in av.flags]

\* parser.parse_args(): the namespace of a command line
parse_args(av) ==
    [max_attempts |-> IF av.max_attempts = None THEN DefaultMaxAttempts
                      ELSE av.max_attempts[1],
     prefix |-> IF av.prefix = None THEN DockerPrefix ELSE av.prefix[1],
     stop_on_failure |-> "--stop-on-failure" \in av.flags,
     show_output_on_failure |-> "--show-output-on-failure" \in av.flags,
     show_output_on_success |-> "--show-output-on-success" \in av.flags,
     singularity_exe |-> "singularity",
     use_digest |-> "--use-digest" \in av.flags]

\* the checks after parse_args: the message of parser.error, "" for none
parser_error(ns) ==
    IF ns.max_attempts < 1 THEN "max-attempts should be at least 1"
    ELSE IF ns.use_digest /\ ns.prefix /= DockerPrefix
    THEN "use-digest only works with docker images"
    ELSE ""

\* variant of the digest condition that does not look for "@"
needsdigest_any(ns, image) == ns.use_digest

\* if args.use_digest and "@" not in image
needsdigest(ns, image) == ns.use_digest /\ ~contains(image, "@")

\* variant of the stop condition that looks at the first outcome
stoponfailure_first(ns, succ) == ns.stop_on_failure /\ ~succ[1]

\* if args.stop_on_failure and not successes[-1]
stoponfailure(ns, succ) == ns.stop_on_failure /\ ~succ[Len(succ)]

\* the exit status after the loop
exitstatus(succ) ==
    IF \E i \in 1..Len(succ) : succ[i] = FALSE THEN 1 ELSE 0

----------------------------------------------------------------------------
(* The state *)

VARIABLES
    argv,       \* the command line
    images,     \* the loaded document
    args,       \* the namespace of parsearguments
    pc,         \* where the process is: "parsearguments", "for" (the head
                \* of main's loop), "getdigestfromquay",
                \* "getdigestfromdockerhub_auth", "getdigestfromdockerhub"
                \* (blocked in the requests.get of that name), "pullimage"
                \* (about to call subprocess.run), "exited"
    idx,        \* position in images of the loop's current image (from 1)
    successes,  \* main's list of outcomes
    imagename,  \* taggedimagetodigest's locals
    tag,
    token,      \* getdigestfromdockerhub's bearer token
    imagetopull,\* the reference handed to pullimage
    attempt,    \* pullimage's locals
    rc,
    stdout,
    stderr,
    console,    \* the lines printed so far, each with the idx it was
                \* printed for
    exitcode,   \* None while running, else the process's exit status
    exception,  \* the uncaught exception that ended the process:
                \* [type, in], type "" for none
    log         \* the calls made so far, in order: [op, idx, arg, ret]

vars ==
    <<argv, images, args, pc, idx, successes, imagename, tag, token,
      imagetopull, attempt, rc, stdout, stderr, console, exitcode,
      exception, log>>

NoException == [type |-> "", in |-> ""]

Event(op, i, arg, ret) == [op |-> op, idx |-> i, arg |-> arg, ret |-> ret]

\* the lines `out`, as printed while image number i is processed
Printed(out, i) == [k \in 1..Len(out) |-> [idx |-> i, line |-> out[k]]]

Init ==
    /\ argv \in Argvs
    /\ images \in YamlDocuments
    /\ args = parse_args(argv)
    /\ pc = "parsearguments"
    /\ idx = 1
    /\ successes = <<>>
    /\ imagename = <<>>
    /\ tag = <<>>
    /\ token = None
    /\ imagetopull = None
    /\ attempt = 0
    /\ rc = 1
    /\ stdout = <<>>
    /\ stderr = <<>>
    /\ console = <<>>
    /\ exitcode = None
    /\ exception = NoException
    /\ log = <<>>

pullvars == <<imagetopull, attempt, rc, stdout, stderr>>
digestvars == <<imagename, tag, token>>
inputvars == <<argv, images, args>>
----------------------------------------------------------------------------
(* Steps shared by the actions *)

\* exit(status)
Exit(status) ==
    /\ pc' = "exited"
    /\ exitcode' = Some(status)
    /\ exception' = exception

\* an exception nothing catches: the traceback, and exit status 1
Uncaught(type, in) ==
    /\ pc' = "exited"
    /\ exitcode' = Some(1)
    /\ exception' = [type |-> type, in |-> in]

\* variant of the recording that appends nothing for a failure
Record_only_successes(outcome) ==
    /\ successes' = IF outcome THEN Append(successes, outcome) ELSE successes
    /\ IF args.stop_on_failure /\ ~outcome
       THEN Exit(1) /\ idx' = idx
       ELSE /\ pc' = "for"
            /\ idx' = idx + 1
            /\ UNCHANGED <<exitcode, exception>>

\* successes.append(outcome), then the stop-on-failure check, then the next
\* round of the loop
Record(outcome) ==
    /\ successes' = Append(successes, outcome)
    /\ IF stoponfailure(args, successes')
       THEN Exit(1) /\ idx' = idx
       ELSE /\ pc' = "for"
            /\ idx' = idx + 1
            /\ UNCHANGED <<exitcode, exception>>

\* the call pullimage(image, ...), up to its first subprocess.run
CallPullimage(image, events) ==
    /\ imagetopull' = Some(image)
    /\ attempt' = 0
    /\ rc' = 1
    /\ stdout' = <<>>
    /\ stderr' = <<>>
    /\ log' = log \o events \o <<Event("pullimage", idx, image, <<>>)>>
    /\ pc' = "pullimage"
    /\ UNCHANGED <<idx, successes, exitcode, exception>>

\* variant of main's branch that pulls the tagged name when no digest was
\* obtained
Resolved_pull_anyway(imagedigest, out) ==
    LET result == taggedimagetodigest(imagename, imagedigest)
        ev == <<Event("taggedimagetodigest.return", idx, imagedigest,
                      result)>>
    IN  /\ console' = console \o Printed(out, idx)
        /\ CallPullimage(IF result /= None THEN result[1] ELSE imagename, ev)

\* the end of taggedimagetodigest, given the digest its lookup returned and
\* the lines the lookup printed, and main's branch on its result
Resolved(imagedigest, out) ==
    LET result == taggedimagetodigest(imagename, imagedigest)
        ev == <<Event("taggedimagetodigest.return", idx, imagedigest,
                      result)>>
    IN  /\ console' = console \o Printed(out, idx)
        /\ IF result /= None
           THEN CallPullimage(result[1], ev)
           ELSE /\ Record(FALSE)
                /\ log' = log \o ev
                /\ UNCHANGED pullvars

----------------------------------------------------------------------------
(* The actions *)

\* parsearguments: the namespace is checked; parser.error exits with 2
ParseArguments ==
    /\ pc = "parsearguments"
    /\ IF parser_error(args) /= ""
       THEN Exit(2)
       ELSE pc' = "for" /\ UNCHANGED <<exitcode, exception>>
    /\ UNCHANGED <<inputvars, idx, successes, digestvars, pullvars, console,
                   log>>

\* the loop is over: exit(1) if any pull failed, else exit(0)
ExitMain ==
    /\ pc = "for"
    /\ idx > Len(images)
    /\ Exit(exitstatus(successes))
    /\ UNCHANGED <<inputvars, idx, successes, digestvars, pullvars, console,
                   log>>

\* the next image is not a str: raise ValueError
RaiseValueError ==
    /\ pc = "for"
    /\ idx <= Len(images)
    /\ images[idx].type /= "str"
    /\ Uncaught("ValueError", "main")
    /\ UNCHANGED <<inputvars, idx, successes, digestvars, pullvars, console,
                   log>>

\* the next image goes to pullimage as it is
PullAsIs ==
    /\ pc = "for"
    /\ idx <= Len(images)
    /\ images[idx].type = "str"
    /\ ~needsdigest(args, images[idx].val)
    /\ CallPullimage(images[idx].val, <<>>)
    /\ UNCHANGED <<inputvars, digestvars, console>>

\* the next image goes to taggedimagetodigest, which sends its first request
ResolveDigest ==
    /\ pc = "for"
    /\ idx <= Len(images)
    /\ images[idx].type = "str"
    /\ needsdigest(args, images[idx].val)
    /\ LET image == images[idx].val
           s == splitimage(image)
           call == Event("taggedimagetodigest", idx, image, <<>>)
       IN  /\ imagename' = s.imagename
           /\ tag' = s.tag
           /\ IF isquay(image)
              THEN /\ pc' = "getdigestfromquay"
                   /\ log' = log \o <<call,
                          Event("requests.get", idx,
                                <<"quay", quayrepository(s.imagename), s.tag>>,
                                <<>>)>>
              ELSE /\ pc' = "getdigestfromdockerhub_auth"
                   /\ log' = log \o <<call,
                          Event("requests.get", idx,
                                <<"auth", dockerhubimage(s.imagename)>>,
                                <<>>)>>
    /\ token' = None
    /\ UNCHANGED <<inputvars, idx, successes, pullvars, console, exitcode,
                   exception>>

\* the quay tag endpoint answers
QuayResponse ==
    /\ pc = "getdigestfromquay"
    /\ \E status \in StatusCodes, n \in 1..Len(QuayContents) :
         LET response == [status_code |-> status, content |-> QuayContents[n]]
             r == getdigestfromquay(quayrepository(imagename), tag, response)
         IN  IF r.exc /= ""
             THEN /\ Uncaught(r.exc, "getdigestfromquay")
                  /\ UNCHANGED <<idx, successes, pullvars, console, log>>
             ELSE Resolved(r.val, r.out)
    /\ UNCHANGED <<inputvars, digestvars>>

\* the Docker Hub token endpoint answers; with a token the manifest request
\* is sent
AuthResponse ==
    /\ pc = "getdigestfromdockerhub_auth"
    /\ \E status \in StatusCodes, n \in 1..Len(AuthContents) :
         LET authresponse ==
                 [status_code |-> status, content |-> AuthContents[n]]
             r == getdigestfromdockerhub_auth(imagename, tag, authresponse)
         IN  IF r.exc /= ""
             THEN /\ Uncaught(r.exc, "getdigestfromdockerhub")
                  /\ UNCHANGED <<idx, successes, pullvars, console, log,
                                 token>>
             ELSE IF r.token /= None
             THEN /\ token' = r.token
                  /\ pc' = "getdigestfromdockerhub"
                  /\ log' = Append(log,
                          Event("requests.get", idx,
                                <<"manifest", dockerhubimage(imagename), tag,
                                  r.token[1]>>, <<>>))
                  /\ UNCHANGED <<idx, successes, pullvars, console, exitcode,
                                 exception>>
             ELSE /\ Resolved(None, r.out)
                  /\ token' = token
    /\ UNCHANGED <<inputvars, imagename, tag>>

\* the Docker Hub manifest endpoint answers
ManifestResponse ==
    /\ pc = "getdigestfromdockerhub"
    /\ \E status \in StatusCodes, n \in 1..Len(ManifestHeaders) :
         LET response == [status_code |-> status,
                          headers |-> ManifestHeaders[n]]
             r == getdigestfromdockerhub(imagename, tag, response)
         IN  Resolved(r.val, r.out)
    /\ UNCHANGED <<inputvars, digestvars>>

\* one round of pullimage's loop: the executable runs and exits with
\* returncode; when the loop ends, pullimage prints and returns, and main
\* records the outcome
SubprocessRun ==
    /\ pc = "pullimage"
    /\ \E returncode \in ReturnCodes :
         LET n == attempt + 1
             cmd == command(args.singularity_exe, args.prefix, imagetopull[1])
             out == Append(stdout, <<"stdout", idx, n>>)
             err == Append(stderr, <<"stderr", idx, n>>)
             run == Event("subprocess.run", idx, cmd, returncode)
         IN  /\ attempt' = n
             /\ stdout' = out
             /\ stderr' = err
             /\ rc' = returncode
             /\ IF pullimage_loop(returncode, n, args.max_attempts)
                THEN /\ log' = Append(log, run)
                     /\ UNCHANGED <<pc, idx, successes, console, exitcode,
                                    exception>>
                ELSE LET r == pullimage_return(imagetopull[1], args.prefix,
                                  returncode, n, out, err,
                                  args.show_output_on_failure,
                                  args.show_output_on_success)
                     IN  /\ console' = console \o Printed(r.out, idx)
                         /\ log' = log \o <<run,
                               Event("pullimage.return", idx, n, r.ret)>>
                         /\ Record(r.ret)
    /\ UNCHANGED <<inputvars, digestvars, imagetopull>>

Next ==
    \/ ParseArguments
    \/ ExitMain
    \/ RaiseValueError
    \/ PullAsIs
    \/ ResolveDigest
    \/ QuayResponse
    \/ AuthResponse
    \/ ManifestResponse
    \/ SubprocessRun

Spec == Init /\ [][Next]_vars
----------------------------------------------------------------------------
(* What has happened for image number i, read from the log and the console *)

\* positions in the log of the calls `op` made for image i
Pos(i, op) == {k \in 1..Len(log) : log[k].idx = i /\ log[k].op = op}

\* the invocations of the executable for image i
Runs(i) == Pos(i, "subprocess.run")

\* the lines printed for image i, in order
ConsoleOf(i) == SelectSeq(console, LAMBDA l : l.idx = i)

\* the returns of pullimage for image i
Returns(i) == Pos(i, "pullimage.return")

\* the part of s before its first ":" (all of s when it has none)
BeforeColon(s) ==
    LET n == CHOOSE m \in 0..Len(s) :
                 /\ \A j \in 1..m : s[j] /= ":"
                 /\ m = Len(s) \/ s[m + 1] = ":"
    IN  SubSeq(s, 1, n)

Started == pc /= "parsearguments" /\ parser_error(args) = ""

----------------------------------------------------------------------------
(* C1 *)

\* C1: when the executable fails k < maxattempts times for an image and then
\* exits 0, no further invocation is made for that image, pullimage returns
\* True after exactly k+1 invocations, True is the image's outcome, and the
\* summary line says "Successfully pulled" with k+1 attempts.
C1_SucceedsAtFirstZero ==
    \A i \in 1..Len(images) :
        LET runs == Runs(i)
            zero == {k \in runs : log[k].ret = 0}
            k1 == Cardinality(runs \ zero) + 1
            lines == ConsoleOf(i)
        IN  /\ \A k \in zero : \A j \in runs : j <= k
            /\ zero /= {} =>
                 /\ k1 <= args.max_attempts
                 /\ Cardinality(runs) = k1
                 /\ i \in DOMAIN successes /\ successes[i] = TRUE
                 /\ \E k \in Returns(i) :
                        log[k].ret = TRUE /\ log[k].arg = k1
                 /\ Len(lines) >= 1
                 /\ lines[1].line.fmt = PulledFmt
                 /\ lines[1].line.args[3] = k1

\* an image pulled at the third attempt of three
C1_Witness ==
    \E i \in DOMAIN successes :
        /\ successes[i] = TRUE
        /\ args.max_attempts = 3
        /\ Cardinality({k \in Runs(i) : log[k].ret /= 0}) = 2
        /\ Cardinality(Runs(i)) = 3

----------------------------------------------------------------------------
(* C2 *)

\* C2: the executable is never invoked more than maxattempts times for an
\* image, and when every invocation for an image exited non-zero and the
\* image's outcome is recorded, there were exactly maxattempts invocations,
\* pullimage returned (it did not raise) the value False, and False is the
\* outcome.
C2_FailsAfterMaxAttempts ==
    \A i \in 1..Len(images) :
        LET runs == Runs(i)
        IN  /\ Cardinality(runs) <= args.max_attempts
            /\ ( /\ i \in DOMAIN successes
                 /\ runs /= {}
                 /\ \A k \in runs : log[k].ret /= 0 )
               => /\ Cardinality(runs) = args.max_attempts
                  /\ successes[i] = FALSE
                  /\ \E k \in Returns(i) :
                         log[k].ret = FALSE /\ log[k].arg = args.max_attempts
                  /\ exception.in /= "pullimage"

\* an image that failed three attempts of three
C2_Witness ==
    \E i \in DOMAIN successes :
        /\ successes[i] = FALSE
        /\ args.max_attempts = 3
        /\ Cardinality(Runs(i)) = 3
        /\ \A k \in Runs(i) : log[k].ret /= 0

----------------------------------------------------------------------------
(* C3 *)

\* C3: with --stop-on-failure, in every state in which an outcome False is
\* recorded the process has exited with status 1, that outcome is the last
\* one recorded, and nothing was requested or invoked for a later image.
C3_StopOnFirstFailure ==
    args.stop_on_failure =>
        \A i \in DOMAIN successes :
            successes[i] = FALSE =>
                /\ pc = "exited"
                /\ exitcode = Some(1)
                /\ i = Len(successes)
                /\ \A k \in 1..Len(log) : log[k].idx <= i

\* [A(fails), B]: A's outcome is False and B, a reference, was never touched
C3_Witness ==
    /\ args.stop_on_failure
    /\ Len(images) = 2
    /\ images[2].type = "str"
    /\ successes = <<FALSE>>
    /\ Runs(1) /= {}
    /\ pc = "exited"

----------------------------------------------------------------------------
(* C4 *)

\* C4: without --stop-on-failure and with string entries only, a run that
\* has ended has recorded an outcome for every image, and its exit status is
\* 1 if some outcome is False and 0 otherwise.
C4_EveryImageProcessed ==
    ( /\ pc = "exited"
      /\ parser_error(args) = ""
      /\ ~args.stop_on_failure
      /\ \A i \in 1..Len(images) : images[i].type = "str" )
    => /\ Len(successes) = Len(images)
       /\ exitcode = Some(IF \E i \in DOMAIN successes : ~successes[i]
                          THEN 1 ELSE 0)

----------------------------------------------------------------------------
(* C5 *)

\* C5: when the input has a non-string entry, no registry request is ever
\* made and the executable is never invoked, for the entries before the
\* non-string one either.
C5_NothingBeforeAbort ==
    (\E i \in 1..Len(images) : images[i].type /= "str")
    => \A k \in 1..Len(log) :
           log[k].op \notin {"requests.get", "subprocess.run"}

----------------------------------------------------------------------------
(* C6 *)

\* C6: with --use-digest, once taggedimagetodigest has returned None for an
\* image, the image's outcome is False, pullimage was not called and the
\* executable was not invoked for it, and the resolver was called once for
\* it, with each endpoint requested at most once.
C6_NoPullWithoutDigest ==
    args.use_digest =>
        \A i \in 1..Len(images) :
            (\E k \in Pos(i, "taggedimagetodigest.return") :
                 log[k].ret = None)
            => /\ i \in DOMAIN successes /\ successes[i] = FALSE
               /\ Pos(i, "pullimage") = {}
               /\ Runs(i) = {}
               /\ Cardinality(Pos(i, "taggedimagetodigest")) = 1
               /\ Cardinality(Pos(i, "taggedimagetodigest.return")) = 1
               /\ \A k, j \in Pos(i, "requests.get") :
                      log[k].arg[1] = log[j].arg[1] => k = j

\* the second image's resolution failed after the token was obtained
C6_Witness ==
    /\ args.use_digest
    /\ Len(successes) = 2
    /\ successes[2] = FALSE
    /\ \E k \in Pos(2, "taggedimagetodigest.return") : log[k].ret = None
    /\ Cardinality(Pos(2, "requests.get")) = 2

----------------------------------------------------------------------------
(* C7 *)

\* C7: with --use-digest, for a reference that contains "@" the resolver is
\* never called and no registry request is made, and once the loop has
\* reached the image pullimage was called with the reference as it is in the
\* input, which is also the reference of every command run for it.
C7_PinnedPassesThrough ==
    (args.use_digest /\ Started) =>
        \A i \in 1..Len(images) :
            (images[i].type = "str" /\ contains(images[i].val, "@")) =>
                /\ Pos(i, "taggedimagetodigest") = {}
                /\ Pos(i, "requests.get") = {}
                /\ (i < idx \/ (i = idx /\ pc \notin {"for"}))
                       => Pos(i, "pullimage") /= {}
                /\ \A k \in Pos(i, "pullimage") : log[k].arg = images[i].val
                /\ \A k \in Runs(i) :
                       log[k].arg[4] = args.prefix \o images[i].val

\* a pinned reference was pulled in digest mode
C7_Witness ==
    /\ args.use_digest
    /\ \E i \in DOMAIN successes :
           /\ images[i].val = RefPinned
           /\ successes[i] = TRUE
           /\ Runs(i) /= {}

----------------------------------------------------------------------------
(* C8 *)

\* C8: no exception leaves the digest resolver.
C8_ResolverNeverRaises ==
    exception.in \notin {"getdigestfromquay", "getdigestfromdockerhub"}

----------------------------------------------------------------------------
(* C9 *)

\* "biocontainers/samtools@sha256:97b9...fcda"
HostlessFixture == quayrepository(BeforeColon(RefQuay)) \o <<"@">> \o QuayDigest

\* "quay.io/biocontainers/samtools@sha256:97b9...fcda"
FullFixture == QuayHost \o HostlessFixture

\* C9 as stated: for "quay.io/biocontainers/samtools:1.2-0" and the fixture
\* digest, the resolver returns the name without the quay host, "@", digest.
C9_ReturnsHostlessName ==
    \A k \in 1..Len(log) :
        ( /\ log[k].op = "taggedimagetodigest.return"
          /\ images[log[k].idx].val = RefQuay
          /\ log[k].arg = Some(QuayDigest) )
        => log[k].ret = Some(HostlessFixture)

\* C9 as amended: for a reference that starts with "quay.io/" and whose tag
\* lookup returned digest d, the resolver returns the part of the reference
\* before its first ":", quay host included, then "@" and d; for the fixture
\* this is "quay.io/biocontainers/samtools@sha256:97b9...fcda".
C9_ReturnsNameWithHost ==
    \A k \in 1..Len(log) :
        ( /\ log[k].op = "taggedimagetodigest.return"
          /\ startswith(images[log[k].idx].val, QuayHost)
          /\ log[k].arg /= None )
        => /\ log[k].ret =
                Some(BeforeColon(images[log[k].idx].val) \o <<"@">>
                     \o log[k].arg[1])
           /\ startswith(log[k].ret[1], QuayHost)
           /\ ( /\ images[log[k].idx].val = RefQuay
                /\ log[k].arg = Some(QuayDigest) )
              => log[k].ret = Some(FullFixture)

\* the fixture reference was resolved with the fixture digest
C9_Witness ==
    \E k \in 1..Len(log) :
        /\ log[k].op = "taggedimagetodigest.return"
        /\ images[log[k].idx].val = RefQuay
        /\ log[k].arg = Some(QuayDigest)
        /\ log[k].ret /= None

----------------------------------------------------------------------------
(* C10 *)

\* among the lines `lines` printed for image i, one after the first prints
\* the captured stream of attempt a
Shows(lines, i, stream, a) ==
    \E n \in 2..Len(lines) :
        /\ lines[n].line.fmt = "{}"
        /\ lines[n].line.args = <<<<stream, i, a>>>>

\* the captured stdout and stderr of every attempt of image i are printed
\* after the first line
ShowsEveryAttempt(lines, i) ==
    \A a \in 1..Cardinality(Runs(i)) :
        Shows(lines, i, "stdout", a) /\ Shows(lines, i, "stderr", a)

\* image i was pulled and failed on every attempt
PullFailed(i) == \E k \in Returns(i) : log[k].ret = FALSE

PullSucceeded(i) == \E k \in Returns(i) : log[k].ret = TRUE

\* C10 as stated: without --show-output-on-failure on the command line, the
\* captured output of every attempt of a failed pull is printed after the
\* failure summary line.
C10_OutputShownByDefault ==
    \A i \in 1..Len(images) :
        (PullFailed(i) /\ "--show-output-on-failure" \notin argv.flags)
        => LET lines == ConsoleOf(i)
           IN  /\ lines[1].line.fmt = FailedFmt
               /\ ShowsEveryAttempt(lines, i)

\* C10 as amended: the toggle is off by default.  Without
\* --show-output-on-failure a failed pull prints its failure summary line
\* and nothing else; with the flag the summary line is followed by the
\* captured stdout and stderr of every attempt.  Without
\* --show-output-on-success a successful pull prints its summary line and
\* nothing else.
C10_OutputShownOnlyWithFlag ==
    \A i \in 1..Len(images) :
        LET lines == ConsoleOf(i)
        IN  /\ PullFailed(i) =>
                 /\ lines[1].line.fmt = FailedFmt
                 /\ IF "--show-output-on-failure" \in argv.flags
                    THEN /\ ShowsEveryAttempt(lines, i)
                         /\ Len(lines) = 3 + 5 * Cardinality(Runs(i))
                    ELSE Len(lines) = 1
            /\ ( /\ PullSucceeded(i)
                 /\ "--show-output-on-success" \notin argv.flags )
               => /\ Len(lines) = 1
                  /\ lines[1].line.fmt = PulledFmt

\* a pull that failed three times without the flag, and printed one line
C10_Witness ==
    \E i \in 1..Len(images) :
        /\ PullFailed(i)
        /\ "--show-output-on-failure" \notin argv.flags
        /\ Cardinality(Runs(i)) = 3
        /\ Len(ConsoleOf(i)) = 1

----------------------------------------------------------------------------
(* C11 *)

\* the part of s after its first ":" (s has one)
AfterColon(s) == SubSeq(s, Len(BeforeColon(s)) + 2, Len(s))

\* the requests of the log that carry a tag: the quay tag lookup and the
\* Docker Hub manifest request
TagRequests ==
    {k \in 1..Len(log) :
        /\ log[k].op = "requests.get"
        /\ log[k].arg[1] \in {"quay", "manifest"}}

\* C11 as stated: the tag sent to the registry is everything after the
\* first ":" of the reference, and "latest" when the reference has no ":".
C11_TagIsRestAfterFirstColon ==
    \A k \in TagRequests :
        LET image == images[log[k].idx].val
        IN  log[k].arg[3] = IF contains(image, ":") THEN AfterColon(image)
                            ELSE Latest

\* C11 as amended: the reference is split on every ":".  The name is the
\* part before the first ":", the tag is the part between the first ":" and
\* the second (all that follows the first when there is no second; what
\* follows a second ":" is dropped), and the tag is "latest" when the
\* reference has no ":".  These are sent to the registry: the tag as it is,
\* the name without its "quay.io/" on the quay path and with "library/"
\* before it on the Docker Hub path when it has no "/".
C11_TagIsSecondSegment ==
    \A k \in 1..Len(log) :
        log[k].op = "requests.get" =>
            LET image == images[log[k].idx].val
                name == BeforeColon(image)
                sent == log[k].arg
            IN  /\ sent[1] \in {"quay", "manifest"} =>
                     sent[3] = IF contains(image, ":")
                               THEN BeforeColon(AfterColon(image))
                               ELSE Latest
                /\ IF sent[1] = "quay"
                   THEN QuayHost \o sent[2] = name
                   ELSE sent[2] = IF contains(name, "/") THEN name
                                  ELSE Library \o name

\* "host:5000/img:v1" was looked up with tag "5000/img", and
\* "biocontainers/cpat" with tag "latest"
C11_Witness ==
    /\ \E k \in TagRequests :
           /\ images[log[k].idx].val = RefPort
           /\ log[k].arg[3] = <<"5", "0", "0", "0", "/", "i", "m", "g">>
    /\ \E k \in TagRequests :
           /\ images[log[k].idx].val = RefUntagged
           /\ log[k].arg[3] = Latest

----------------------------------------------------------------------------
(* C12 *)

\* the loop of main has run to its end
FullRun == pc = "exited" /\ Started /\ idx > Len(images)

\* C12: in every state the outcomes recorded are those of the first images
\* of the input, one each and in order: outcome i is True exactly when the
\* executable exited 0 for image i, and an image with an outcome has
\* finished (pullimage returned for it, or its resolution returned None).
\* The calls in the log are in input order, and a call for an image is made
\* only when every image before it has its outcome.  After a full run there
\* are as many outcomes as images.
C12_SequentialInInputOrder ==
    /\ Len(successes) <= Len(images)
    /\ Len(successes) \in {idx - 1, idx}
    /\ Len(successes) = idx => pc = "exited"
    /\ \A i \in DOMAIN successes :
           /\ images[i].type = "str"
           /\ successes[i] = (\E k \in Runs(i) : log[k].ret = 0)
           /\ \/ \E k \in Returns(i) : log[k].ret = successes[i]
              \/ /\ ~successes[i]
                 /\ \E k \in Pos(i, "taggedimagetodigest.return") :
                        log[k].ret = None
    /\ \A k \in 1..Len(log) :
           /\ log[k].idx <= Len(successes) + 1
           /\ k > 1 => log[k - 1].idx <= log[k].idx
    /\ FullRun => Len(successes) = Len(images)

\* a full run over two images, the first failed and the second pulled
C12_Witness ==
    /\ FullRun
    /\ successes = <<FALSE, TRUE>>
    /\ Runs(1) /= {}
    /\ Runs(2) /= {}
    /\ exitcode = Some(1)

----------------------------------------------------------------------------
(* C13 *)

\* s ends with e
EndsWith(s, e) ==
    Len(s) >= Len(e) /\ SubSeq(s, Len(s) - Len(e) + 1, Len(s)) = e

\* the part of s after its last "@" (all of s when it has none)
AfterAt(s) ==
    LET n == CHOOSE m \in 0..Len(s) :
                 /\ \A j \in (m + 1)..Len(s) : s[j] /= "@"
                 /\ m = 0 \/ s[m] = "@"
    IN  SubSeq(s, n + 1, Len(s))

\* C13: with --use-digest, every reference handed to pullimage ends with
\* "@" and a digest (the input's own, or one a registry returned), and
\* every reference the executable is invoked for contains "@".
C13_DigestModePullsPinned ==
    args.use_digest =>
        \A k \in 1..Len(log) :
            /\ log[k].op = "pullimage" =>
                   /\ contains(log[k].arg, "@")
                   /\ \E d \in {QuayDigest, HubDigest} \cup
                              {AfterAt(images[log[k].idx].val)} :
                          EndsWith(log[k].arg, <<"@">> \o d)
            /\ log[k].op = "subprocess.run" => contains(log[k].arg[4], "@")

\* in digest mode the executable ran for a reference the resolver pinned
C13_Witness ==
    /\ args.use_digest
    /\ \E k \in 1..Len(log) :
           /\ log[k].op = "subprocess.run"
           /\ ~contains(images[log[k].idx].val, "@")
====
